---- MODULE Spec2Model ----
(***************************************************************************)
(* State-machine model of SqliteDbFactory (createInitializedDB,            *)
(* createEmptyDB, initSchema, readAllSchema) of                            *)
(* packages/engine-server/src/drivers/sqlite/SqliteDbFactory.ts.           *)
(*                                                                         *)
(* Promises and neverthrow ResultAsync values are modelled by their        *)
(* settlement state: "pending", then "ok" / "err" (a Result) or            *)
(* "rejected" (the underlying promise rejected, so no Result exists).      *)
(***************************************************************************)
EXTENDS Integers, Sequences, FiniteSets, TLC

\* ------------------------------------------------------------------ bounds
MaxVaults ==
  2

MaxFiles ==
  1

\* Number of distinct command instances that are offered for registration.
MaxCmds ==
  3

\* Number of registerIfNotRegistered calls in a run.
MaxRegs ==
  3

\* Length of the longest string given to autoCompleteNoteLookup.
MaxLen ==
  3

\* --------------------------------------------------------------- constants
\* Tables created by the first ResultAsync.combine of createEmptyDB.
Phase1Tables ==
  {"Vaults", "NoteProps", "Links"}

\* Tables created by the second ResultAsync.combine of createEmptyDB.
Phase2Tables ==
  {"VaultNotes", "Hierarchy", "SchemaNotes", "NotePropsFts"}

AllTables ==
  Phase1Tables \cup Phase2Tables

\* SqliteQueryUtils.run(db, "PRAGMA foreign_keys = ON")
PragmaFK ==
  "PRAGMA foreign_keys = ON"

\* Every statement the second combine issues, the PRAGMA included.
Phase2Stmts ==
  Phase2Tables \cup {PragmaFK}

AllStmts ==
  Phase1Tables \cup Phase2Stmts

DbFilePaths ==
  {":memory:", "dendron.db"}

VARIABLES
  dbFilePath,     \* argument of createEmptyDB / createInitializedDB
  nVaults,        \* length of the vaults argument; the vaults are 1..nVaults
  pc,             \* position of the createInitializedDB call
  prom,           \* the promise wrapping `new Database(...)`
  settleCalls,    \* number of resolve/reject calls made on prom
  stmt,           \* per statement: "notIssued", "running", "ok", "err"
  tables,         \* tables that exist in the store
  fkOn,           \* foreign-key enforcement of the connection
  emptyDbResult,  \* what createEmptyDB returned: "pending", "ok", "err"
  vault,          \* per vault: the state of its ResultAsync chain
  result,         \* what createInitializedDB returned
  raTask,         \* readAllSchema: per vault, position of its async callback
  raParsed,       \* readAllSchema: per vault, what SchemaParser.parse resolved to
  raResp,         \* readAllSchema: per vault, the response its callback returned
  errorList,      \* readAllSchema: the local `errorList`
  raResult,       \* readAllSchema: the returned RespWithOptError
  raOrder,        \* readAllSchema: the vaults in the order their callbacks ended
  isPc,           \* initSchema: position of the call and of its combine chain
  isTask,         \* initSchema: per vault, state of its ResultAsync chain
  isResp,         \* initSchema: per vault, what schemaParser.parse resolved to
  isErrors,       \* initSchema: the local `errors`
  schemaDict,     \* initSchema: the local `schemaDict` object
  isReturned,     \* initSchema: the ResultAsync handed back to the caller
  isReceived,     \* initSchema: what the caller saw when it awaited the result
  isOrder,        \* initSchema: the vaults in the order their chains settled
  UI_AUTOCOMPLETE_COMMANDS, \* UIAutoCompletableCmds: the static map
  regLog,         \* the registerIfNotRegistered calls made so far, in order
  lastGet,        \* outcome of the latest getCmd call
  currentValue,   \* autoCompleteNoteLookup: argument currentValue
  activeItemValue, \* autoCompleteNoteLookup: argument activeItemValue
  fnames,         \* autoCompleteNoteLookup: argument fnames
  acPc,           \* autoCompleteNoteLookup: "idle", "call", "returned"
  acResult,       \* autoCompleteNoteLookup: the returned string
  acCalls         \* recursive calls matchPrefixTillNextDot made of itself

dbVars ==
  <<dbFilePath, pc, prom, settleCalls, stmt, tables, fkOn,
    emptyDbResult, vault, result>>

raVars ==
  <<raTask, raParsed, raResp, errorList, raResult, raOrder>>

isVars ==
  <<isPc, isTask, isResp, isErrors, schemaDict, isReturned, isReceived,
    isOrder>>

regVars ==
  <<UI_AUTOCOMPLETE_COMMANDS, regLog, lastGet>>

acVars ==
  <<currentValue, activeItemValue, fnames, acPc, acResult, acCalls>>

vars ==
  <<nVaults, dbVars, raVars, isVars, regVars, acVars>>

Vaults ==
  1..nVaults

\* ------------------------------------------------------- library semantics
\* Mutant of Settle: the last resolve/reject call decides the promise.
SettleLastWins(p, outcome) ==
  outcome

\* A promise settles once: later resolve/reject calls have no effect.
Settle(p, outcome) ==
  IF p = "pending" THEN outcome ELSE p

\* Mutant of AllSettled: Promise.race instead of Promise.all, the combine
\* goes on as soon as one member has a Result.
AnySettled(rs) ==
  \E r \in rs : r \in {"ok", "err"}

\* Promise.all inside ResultAsync.combine: every member has a Result.
AllSettled(rs) ==
  \A r \in rs : r \in {"ok", "err"}

\* Mutant of Combine: Ok as soon as one member is Ok.
CombineAnyOk(rs) ==
  IF \E r \in rs : r = "ok" THEN "ok" ELSE "err"

\* combineResultList: Err if any member is Err, else Ok of all values.
Combine(rs) ==
  IF \E r \in rs : r = "err" THEN "err" ELSE "ok"

\* Results of a set of statements.
StmtResults(S) ==
  {stmt[s] : s \in S}

\* ------------------------------------------------------------------- Init
NoVault ==
  [task |-> "notStarted", list |-> "none", nfiles |-> 0,
   res |-> "pending", inner |-> "none", rows |-> 0]

InitDb ==
  /\ dbFilePath \in DbFilePaths
  /\ nVaults \in 0..MaxVaults
  /\ pc = "open"
  /\ prom = "pending"
  /\ settleCalls = 0
  /\ stmt = [s \in AllStmts |-> "notIssued"]
  /\ tables = {}
  /\ fkOn = FALSE
  /\ emptyDbResult = "pending"
  /\ vault = [v \in 1..MaxVaults |-> NoVault]
  /\ result = "pending"

\* ------------------------------------------------------------ createEmptyDB
\* The callback of `new Database(dbFilePath, cb)`: on err it calls
\* reject(err.message) and then, in every case, resolve(db).
DatabaseCallback(err) ==
  /\ pc = "open"
  /\ prom' = Settle(IF err THEN Settle(prom, "rejected") ELSE prom, "resolved")
  /\ settleCalls' = settleCalls + (IF err THEN 2 ELSE 1)
  /\ pc' = "opened"
  /\ UNCHANGED <<acVars, regVars, raVars, isVars,
                 dbFilePath, nVaults, stmt, tables, fkOn,
                 emptyDbResult, vault, result>>

\* ResultAsync.fromPromise(prom, ...) is Err: the andThen callback is skipped.
createEmptyDB_OpenFailed ==
  /\ pc = "opened"
  /\ prom = "rejected"
  /\ emptyDbResult' = "err"
  /\ pc' = "emptyDone"
  /\ UNCHANGED <<acVars, regVars, raVars, isVars,
                 dbFilePath, nVaults, prom, settleCalls, stmt,
                 tables, fkOn, vault, result>>

\* andThen((db) => combine([Vaults, NoteProps, Links createTable])).
createEmptyDB_Phase1 ==
  /\ pc = "opened"
  /\ prom = "resolved"
  /\ stmt' = [s \in AllStmts |->
                IF s \in Phase1Tables THEN "running" ELSE stmt[s]]
  /\ pc' = "phase1"
  /\ UNCHANGED <<acVars, regVars, raVars, isVars,
                 dbFilePath, nVaults, prom, settleCalls,
                 tables, fkOn, emptyDbResult, vault, result>>

\* The store executes an issued statement; it succeeds or fails.
RunStatement(s, ok) ==
  /\ stmt[s] = "running"
  /\ stmt' = [stmt EXCEPT ![s] = IF ok THEN "ok" ELSE "err"]
  /\ tables' = IF ok /\ s \in AllTables THEN tables \cup {s} ELSE tables
  /\ fkOn' = IF ok /\ s = PragmaFK THEN TRUE ELSE fkOn
  /\ UNCHANGED <<acVars, regVars, raVars, isVars,
                 dbFilePath, nVaults, pc, prom, settleCalls,
                 emptyDbResult, vault, result>>

\* First combine is Ok: .andThen(() => combine([VaultNotes, Hierarchy,
\* SchemaNotes, NotePropsFts createTable, run(PRAGMA foreign_keys = ON)])).
createEmptyDB_Phase2 ==
  /\ pc = "phase1"
  /\ AllSettled(StmtResults(Phase1Tables))
  /\ Combine(StmtResults(Phase1Tables)) = "ok"
  /\ stmt' = [s \in AllStmts |->
                IF s \in Phase2Stmts THEN "running" ELSE stmt[s]]
  /\ pc' = "phase2"
  /\ UNCHANGED <<acVars, regVars, raVars, isVars,
                 dbFilePath, nVaults, prom, settleCalls,
                 tables, fkOn, emptyDbResult, vault, result>>

\* First combine is Err: andThen and map are skipped, the Err is returned.
createEmptyDB_Phase1Failed ==
  /\ pc = "phase1"
  /\ AllSettled(StmtResults(Phase1Tables))
  /\ Combine(StmtResults(Phase1Tables)) = "err"
  /\ emptyDbResult' = "err"
  /\ pc' = "emptyDone"
  /\ UNCHANGED <<acVars, regVars, raVars, isVars,
                 dbFilePath, nVaults, prom, settleCalls, stmt,
                 tables, fkOn, vault, result>>

\* Mutant of createEmptyDB_Return: the PRAGMA is left out of the combine, so
\* the handle is returned once the four phase-2 tables settle.
createEmptyDB_Return_PragmaNotAwaited ==
  /\ pc = "phase2"
  /\ AllSettled(StmtResults(Phase2Tables))
  /\ emptyDbResult' = Combine(StmtResults(Phase2Tables))
  /\ pc' = "emptyDone"
  /\ UNCHANGED <<acVars, regVars, raVars, isVars,
                 dbFilePath, nVaults, prom, settleCalls, stmt,
                 tables, fkOn, vault, result>>

\* Second combine settles: .map(() => db) on Ok, the Err otherwise.
createEmptyDB_Return ==
  /\ pc = "phase2"
  /\ AllSettled(StmtResults(Phase2Stmts))
  /\ emptyDbResult' = Combine(StmtResults(Phase2Stmts))
  /\ pc' = "emptyDone"
  /\ UNCHANGED <<acVars, regVars, raVars, isVars,
                 dbFilePath, nVaults, prom, settleCalls, stmt,
                 tables, fkOn, vault, result>>

\* ------------------------------------------------------ createInitializedDB
\* createEmptyDB(dbFilePath) is Err: the andThen callback is skipped.
createInitializedDB_EmptyFailed ==
  /\ pc = "emptyDone"
  /\ emptyDbResult = "err"
  /\ result' = "err"
  /\ pc' = "done"
  /\ UNCHANGED <<acVars, regVars, raVars, isVars,
                 dbFilePath, nVaults, prom, settleCalls, stmt,
                 tables, fkOn, emptyDbResult, vault>>

\* Mutant of createInitializedDB_Ingest: the callback runs whatever
\* createEmptyDB returned (.andThen replaced by an unconditional step).
createInitializedDB_Ingest_Unconditional ==
  /\ pc = "emptyDone"
  /\ vault' = [v \in 1..MaxVaults |->
                 IF v \in Vaults THEN [vault[v] EXCEPT !.task = "listing"]
                 ELSE vault[v]]
  /\ pc' = "ingest"
  /\ UNCHANGED <<acVars, regVars, raVars, isVars,
                 dbFilePath, nVaults, prom, settleCalls, stmt,
                 tables, fkOn, emptyDbResult, result>>

\* createEmptyDB(dbFilePath).andThen((db) => ...): vaults.map calls
\* fileStore.readDir for every vault before any of them settles.
createInitializedDB_Ingest ==
  /\ pc = "emptyDone"
  /\ emptyDbResult = "ok"
  /\ vault' = [v \in 1..MaxVaults |->
                 IF v \in Vaults THEN [vault[v] EXCEPT !.task = "listing"]
                 ELSE vault[v]]
  /\ pc' = "ingest"
  /\ UNCHANGED <<acVars, regVars, raVars, isVars,
                 dbFilePath, nVaults, prom, settleCalls, stmt,
                 tables, fkOn, emptyDbResult, result>>

\* What fileStore.readDir can do: reject, resolve with {error}, or resolve
\* with {data} listing n note files.
ReadDirOutcomes ==
  {<<"reject", 0>>, <<"respErr", 0>>} \cup {<<"data", n>> : n \in 0..MaxFiles}

\* Mutant of createInitializedDB_ReadDir: an empty listing is treated as a
\* failure, as readAllSchema does for schema files.
createInitializedDB_ReadDir_EmptyIsError(v, o) ==
  /\ v \in Vaults
  /\ vault[v].task = "listing"
  /\ o \in ReadDirOutcomes
  /\ vault' = [vault EXCEPT ![v] =
                 IF o[1] = "reject" \/ (o[1] = "data" /\ o[2] = 0)
                 THEN [@ EXCEPT !.task = "settled", !.list = o[1],
                                !.res = "err"]
                 ELSE [@ EXCEPT !.task = "parsing", !.list = o[1],
                                !.nfiles = o[2]]]
  /\ UNCHANGED <<acVars, regVars, raVars, isVars,
                 dbFilePath, nVaults, pc, prom, settleCalls,
                 stmt, tables, fkOn, emptyDbResult, result>>

\* ResultAsync.fromPromise(fileStore.readDir(...), (e) => e): a rejection
\* becomes Err; any resolved response, {error} included, becomes Ok and is
\* handed to the .map callback, which calls the parser with maybeFiles.data!.
createInitializedDB_ReadDir(v, o) ==
  /\ v \in Vaults
  /\ vault[v].task = "listing"
  /\ o \in ReadDirOutcomes
  /\ vault' = [vault EXCEPT ![v] =
                 IF o[1] = "reject"
                 THEN [@ EXCEPT !.task = "settled", !.list = "reject",
                                !.res = "err"]
                 ELSE [@ EXCEPT !.task = "parsing", !.list = o[1],
                                !.nfiles = o[2]]]
  /\ UNCHANGED <<acVars, regVars, raVars, isVars,
                 dbFilePath, nVaults, pc, prom, settleCalls,
                 stmt, tables, fkOn, emptyDbResult, result>>

\* parseAllNoteFilesForSqlite(files, vault, db, ...): returns Ok after writing
\* the rows of every file, or an error (§6: "returns inserted-row
\* counts/errors"; §4.2: zero files is not an error).  Called with
\* files = undefined its behaviour is not specified: it may throw or return.
ParserOutcomes(list, nfiles) ==
  IF list = "respErr" THEN {"throw", "ok", "err"}
  ELSE IF nfiles = 0 THEN {"ok"}
  ELSE {"ok", "err"}

\* Rows the parser may have written when it settles with outcome `out`.
ParserRows(out, nfiles) ==
  IF out = "ok" THEN {nfiles} ELSE 0..nfiles

\* ResultAsync.map(f): Ok(await f(value)).  The parser's own Result is the
\* awaited value, so it is wrapped in Ok whether it is Ok or Err; a throw
\* inside f rejects the underlying promise.
MapResult(out) ==
  IF out = "throw" THEN "rejected" ELSE "ok"

\* The .map callback of one vault settles.
createInitializedDB_Parse(v, out, k) ==
  /\ v \in Vaults
  /\ vault[v].task = "parsing"
  /\ out \in ParserOutcomes(vault[v].list, vault[v].nfiles)
  /\ k \in ParserRows(out, vault[v].nfiles)
  /\ vault' = [vault EXCEPT ![v] =
                 [@ EXCEPT !.task = "settled", !.res = MapResult(out),
                           !.inner = out, !.rows = k]]
  /\ UNCHANGED <<acVars, regVars, raVars, isVars,
                 dbFilePath, nVaults, pc, prom, settleCalls,
                 stmt, tables, fkOn, emptyDbResult, result>>

\* Results of the per-vault ResultAsync chains handed to combine.
VaultResults ==
  {vault[v].res : v \in Vaults}

\* Mutant of createInitializedDB_Return: the handle is returned without
\* waiting for the vaults that have no Result yet.
createInitializedDB_Return_NoWait ==
  /\ pc = "ingest"
  /\ \A v \in Vaults : vault[v].res # "rejected"
  /\ result' = Combine(VaultResults)
  /\ pc' = "done"
  /\ UNCHANGED <<acVars, regVars, raVars, isVars,
                 dbFilePath, nVaults, prom, settleCalls, stmt,
                 tables, fkOn, emptyDbResult, vault>>

\* ResultAsync.combine(...) settles once every vault has a Result;
\* results.map(() => db) turns Ok into the handle.
createInitializedDB_Return ==
  /\ pc = "ingest"
  /\ AllSettled(VaultResults)
  /\ result' = Combine(VaultResults)
  /\ pc' = "done"
  /\ UNCHANGED <<acVars, regVars, raVars, isVars,
                 dbFilePath, nVaults, prom, settleCalls, stmt,
                 tables, fkOn, emptyDbResult, vault>>

\* Promise.all inside combine rejects as soon as one member rejects: the
\* promise returned by createInitializedDB rejects, no Result is produced.
createInitializedDB_Reject ==
  /\ pc = "ingest"
  /\ \E v \in Vaults : vault[v].res = "rejected"
  /\ result' = "rejected"
  /\ pc' = "done"
  /\ UNCHANGED <<acVars, regVars, raVars, isVars,
                 dbFilePath, nVaults, prom, settleCalls, stmt,
                 tables, fkOn, emptyDbResult, vault>>

\* ------------------------------------------------------------ error values
\* RootIds a schema module's root.id can take; two let ids collide.
RootIds ==
  {"r1", "r2"}

\* A missing `error` (undefined).
Undefined ==
  [kind |-> "undefined", status |-> "", severity |-> "", vault |-> 0,
   file |-> 0, errors |-> <<>>]

\* new DendronError({message, status, severity, payload}); `vault` stands for
\* the vault name the message carries, `file` for the file that failed.
DendronError(status, severity, v, f) ==
  [kind |-> "error", status |-> status, severity |-> severity, vault |-> v,
   file |-> f, errors |-> <<>>]

\* new DendronCompositeError(errors): holds the list it is given (§4.4:
\* "construct from a ... list of sub-errors; expose the full list").
DendronCompositeError(errs) ==
  [kind |-> "composite", status |-> "", severity |-> "", vault |-> 0,
   file |-> 0, errors |-> errs]

\* The error readAllSchema builds for a vault without schema files.
NoSchemaFound(v) ==
  DendronError("NO_SCHEMA_FOUND", "MINOR", v, 0)

\* An error SchemaParser.parse reports for file f of vault v.
ParseError(v, f) ==
  DendronError("BAD_PARSE_FOR_SCHEMA", "FATAL", v, f)

\* A SchemaModuleProps parsed from file f of vault v, with root.id = id.
SchemaModule(v, f, id) ==
  [vault |-> v, file |-> f, rootId |-> id]

NoModule ==
  [vault |-> 0, file |-> 0, rootId |-> "none"]

\* Array.prototype.flatMap over per-vault arrays f[1..n]: concatenation in
\* vault order.
RECURSIVE FlatMap(_, _)
FlatMap(f, n) ==
  IF n = 0 THEN <<>> ELSE FlatMap(f, n - 1) \o f[n]

\* The non-composite errors found anywhere inside an error value.
RECURSIVE LeafErrors(_)
LeafErrors(e) ==
  IF e.kind = "composite"
  THEN UNION {LeafErrors(e.errors[i]) : i \in 1..Len(e.errors)}
  ELSE IF e.kind = "undefined" THEN {} ELSE {e}

\* ------------------------------------------------------------ SchemaParser
\* What the parser makes of one schema file: an error, or a module with
\* some root id.
FileOutcomes ==
  {"error"} \cup RootIds

\* The schemas of a parse in which file i had outcome a[i].
ParsedSchemas(v, a, n) ==
  LET good == SelectSeq([i \in 1..n |-> i], LAMBDA i : a[i] # "error")
  IN  [k \in 1..Len(good) |-> SchemaModule(v, good[k], a[good[k]])]

\* The errors of a parse in which file i had outcome a[i].
ParsedErrors(v, a, n) ==
  LET bad == SelectSeq([i \in 1..n |-> i], LAMBDA i : a[i] = "error")
  IN  [k \in 1..Len(bad) |-> ParseError(v, bad[k])]

\* SchemaParser.parse(files, vault) resolves to {schemas, errors} with
\* errors: DendronError[] | null (§6); without errors it may be null or [].
ParseOutcomes(v, n) ==
  UNION {
    LET errs == ParsedErrors(v, a, n)
        schemas == ParsedSchemas(v, a, n)
    IN  {[schemas |-> schemas, errors |-> [isNull |-> b, list |-> errs]] :
           b \in (IF errs = <<>> THEN BOOLEAN ELSE {FALSE})}
    : a \in [1..n -> FileOutcomes]}

NoParse ==
  [schemas |-> <<>>, errors |-> [isNull |-> TRUE, list |-> <<>>]]

\* What fileStore.readDir resolves to for *.schema.yml: {error} or {data}
\* listing n files.
SchemaReadDirOutcomes ==
  {<<"error", 0>>} \cup {<<"data", n>> : n \in 0..MaxFiles}

\* ------------------------------------------------------------ readAllSchema
NoTask ==
  [pos |-> "idle", list |-> "none", nfiles |-> 0]

NoResp ==
  [data |-> <<>>, error |-> Undefined]

NoResult ==
  [returned |-> FALSE, data |-> <<>>, error |-> Undefined]

IdleRA ==
  /\ raTask = [v \in 1..MaxVaults |-> NoTask]
  /\ raParsed = [v \in 1..MaxVaults |-> NoParse]
  /\ raResp = [v \in 1..MaxVaults |-> NoResp]
  /\ errorList = <<>>
  /\ raResult = NoResult
  /\ raOrder = <<>>

\* readAllSchema(vaults, ...) up to the await of Promise.all: vaults.map runs
\* every async callback up to its `await fileStore.readDir(...)`.
readAllSchema_Call ==
  /\ \A v \in 1..MaxVaults : raTask[v].pos = "idle"
  /\ ~raResult.returned
  /\ raTask' = [v \in 1..MaxVaults |->
                  IF v \in Vaults THEN [raTask[v] EXCEPT !.pos = "listing"]
                  ELSE [raTask[v] EXCEPT !.pos = "unused"]]
  /\ errorList' = <<>>
  /\ UNCHANGED <<acVars, regVars, nVaults, dbVars, isVars, raParsed, raResp,
                 raResult,
                 raOrder>>

\* The response a vault's callback returns when maybeFiles.error is set or
\* maybeFiles.data is empty.
readAllSchema_NoSchemaResp(v) ==
  [data |-> <<>>, error |-> DendronCompositeError(<<NoSchemaFound(v)>>)]

\* `await fileStore.readDir(...)` of vault v resumes with outcome o.
readAllSchema_ReadDir(v, o) ==
  /\ v \in Vaults
  /\ raTask[v].pos = "listing"
  /\ o \in SchemaReadDirOutcomes
  /\ IF o[1] = "error" \/ o[2] = 0
     THEN /\ raTask' = [raTask EXCEPT ![v] =
                          [pos |-> "done", list |-> o[1], nfiles |-> o[2]]]
          /\ raResp' = [raResp EXCEPT ![v] = readAllSchema_NoSchemaResp(v)]
          /\ raOrder' = Append(raOrder, v)
     ELSE /\ raTask' = [raTask EXCEPT ![v] =
                          [pos |-> "parsing", list |-> o[1], nfiles |-> o[2]]]
          /\ UNCHANGED <<raResp, raOrder>>
  /\ UNCHANGED <<acVars, regVars, nVaults, dbVars,
                 isVars, raParsed, errorList, raResult>>

\* Mutant of readAllSchema_ParsedResp: the schemas are dropped when the
\* parser returned an error list.
readAllSchema_ParsedResp_DataOrError(out) ==
  [data |-> IF out.errors.isNull THEN out.schemas ELSE <<>>,
   error |-> IF out.errors.isNull THEN Undefined
             ELSE DendronCompositeError(out.errors.list)]

\* The response a vault's callback returns after parsing: `errors` is
\* wrapped in a composite unless it is null.
readAllSchema_ParsedResp(out) ==
  [data |-> out.schemas,
   error |-> IF out.errors.isNull THEN Undefined
             ELSE DendronCompositeError(out.errors.list)]

\* `await new SchemaParser(...).parse(schemaFiles, vault)` of vault v resumes.
\* `if (errors)` is true of every array, the empty one included.
readAllSchema_Parse(v, out) ==
  /\ v \in Vaults
  /\ raTask[v].pos = "parsing"
  /\ out \in ParseOutcomes(v, raTask[v].nfiles)
  /\ errorList' = IF out.errors.isNull THEN errorList
                  ELSE errorList \o out.errors.list
  /\ raParsed' = [raParsed EXCEPT ![v] = out]
  /\ raResp' = [raResp EXCEPT ![v] = readAllSchema_ParsedResp(out)]
  /\ raTask' = [raTask EXCEPT ![v].pos = "done"]
  /\ raOrder' = Append(raOrder, v)
  /\ UNCHANGED <<acVars, regVars, nVaults, dbVars, isVars, raResult>>

\* Mutant of readAllSchema_Errors: only the first failing vault is kept.
readAllSchema_Errors_FirstOnly(resps, n) ==
  LET all == SelectSeq([v \in 1..n |-> resps[v].error],
                       LAMBDA e : e.kind # "undefined")
  IN  IF all = <<>> THEN <<>> ELSE <<Head(all)>>

\* schemaResponses.flatMap((response) => response.error)
\*   .filter(isNotUndefined): response.error is one object, not an array, so
\* flatMap keeps it as one element.
readAllSchema_Errors(resps, n) ==
  SelectSeq([v \in 1..n |-> resps[v].error],
            LAMBDA e : e.kind # "undefined")

\* Mutant of readAllSchema_Result: the data is dropped when there is an
\* error (the policy of the error-or-data variant).
readAllSchema_Result_NoDataOnError(resps, n) ==
  LET errors == readAllSchema_Errors(resps, n)
  IN  [returned |-> TRUE,
       data |-> IF Len(errors) > 0 THEN <<>>
                ELSE FlatMap([v \in 1..n |-> resps[v].data], n),
       error |-> IF Len(errors) > 0 THEN DendronCompositeError(errors)
                 ELSE Undefined]

\* The value readAllSchema returns for the responses resps of n vaults.
readAllSchema_Result(resps, n) ==
  LET errors == readAllSchema_Errors(resps, n)
  IN  [returned |-> TRUE,
       data |-> FlatMap([v \in 1..n |-> resps[v].data], n),
       error |-> IF Len(errors) > 0 THEN DendronCompositeError(errors)
                 ELSE Undefined]

\* Promise.all resolves once every callback has returned.
readAllSchema_Return ==
  /\ ~raResult.returned
  /\ \A v \in 1..MaxVaults : raTask[v].pos \in {"done", "unused"}
  /\ raResult' = readAllSchema_Result(raResp, nVaults)
  /\ UNCHANGED <<acVars, regVars, nVaults, dbVars, isVars, raTask, raParsed,
                 raResp,
                 errorList, raOrder>>

\* --------------------------------------------------------------- initSchema
NoReturn ==
  [kind |-> "none", error |-> Undefined]

NoDict ==
  [id \in RootIds |-> NoModule]

NotReceived ==
  [received |-> FALSE, kind |-> "none", dict |-> NoDict, error |-> Undefined]

IdleIS ==
  /\ isPc = "idle"
  /\ isTask = [v \in 1..MaxVaults |-> NoTask]
  /\ isResp = [v \in 1..MaxVaults |-> NoParse]
  /\ isErrors = <<>>
  /\ schemaDict = NoDict
  /\ isReturned = NoReturn
  /\ isReceived = NotReceived
  /\ isOrder = <<>>

\* The synchronous body of initSchema: it starts readDir for every vault,
\* attaches the combineWithAllErrors(...).map(...) chain without awaiting
\* it, then tests `errors.length > 0` and returns errAsync or okAsync.
initSchema_Call ==
  /\ isPc = "start"
  /\ isTask' = [v \in 1..MaxVaults |->
                  IF v \in Vaults THEN [isTask[v] EXCEPT !.pos = "listing"]
                  ELSE [isTask[v] EXCEPT !.pos = "unused"]]
  /\ isReturned' = IF Len(isErrors) > 0
                   THEN [kind |-> "err",
                         error |-> DendronCompositeError(isErrors)]
                   ELSE [kind |-> "ok", error |-> Undefined]
  /\ isPc' = "called"
  /\ UNCHANGED <<acVars, regVars, nVaults, dbVars, raVars, isResp, isErrors,
                 schemaDict,
                 isReceived, isOrder>>

\* ResultUtils.PromiseRespV3ToResultAsync(fileStore.readDir(...)): an
\* {error} response is Err, {data} is Ok and andThen calls the parser.
initSchema_ReadDir(v, o) ==
  /\ v \in Vaults
  /\ isTask[v].pos = "listing"
  /\ o \in SchemaReadDirOutcomes
  /\ isTask' = [isTask EXCEPT ![v] =
                  [pos |-> IF o[1] = "error" THEN "err" ELSE "parsing",
                   list |-> o[1], nfiles |-> o[2]]]
  /\ isOrder' = IF o[1] = "error" THEN Append(isOrder, v) ELSE isOrder
  /\ UNCHANGED <<acVars, regVars, nVaults, dbVars,
                 raVars, isPc, isResp, isErrors, schemaDict,
                 isReturned, isReceived>>

\* ResultAsync.fromSafePromise(schemaParser.parse(schemaFiles, vault)) is Ok.
initSchema_Parse(v, out) ==
  /\ v \in Vaults
  /\ isTask[v].pos = "parsing"
  /\ out \in ParseOutcomes(v, isTask[v].nfiles)
  /\ isTask' = [isTask EXCEPT ![v].pos = "ok"]
  /\ isResp' = [isResp EXCEPT ![v] = out]
  /\ isOrder' = Append(isOrder, v)
  /\ UNCHANGED <<acVars, regVars, nVaults, dbVars, raVars, isPc, isErrors,
                 schemaDict,
                 isReturned, isReceived>>

\* Mutant of InsertSchemas: an id that is already in the dictionary is kept
\* (first write wins).
RECURSIVE InsertSchemasFirstWins(_, _)
InsertSchemasFirstWins(dict, schemas) ==
  IF schemas = <<>> THEN dict
  ELSE InsertSchemasFirstWins(
         IF dict[Head(schemas).rootId] = NoModule
         THEN [dict EXCEPT ![Head(schemas).rootId] = Head(schemas)]
         ELSE dict,
         Tail(schemas))

\* schemas.forEach((schema) => { schemaDict[schema.root.id] = schema }).
RECURSIVE InsertSchemas(_, _)
InsertSchemas(dict, schemas) ==
  IF schemas = <<>> THEN dict
  ELSE InsertSchemas([dict EXCEPT ![Head(schemas).rootId] = Head(schemas)],
                     Tail(schemas))

\* combineWithAllErrors settles once every vault's chain has a Result.
initSchema_AllSettled ==
  \A v \in Vaults : isTask[v].pos \in {"ok", "err"}

\* Every vault's chain is Ok: the .map callback assigns `errors` and fills
\* schemaDict.
initSchema_CombineMap ==
  /\ isPc = "called"
  /\ initSchema_AllSettled
  /\ \A v \in Vaults : isTask[v].pos = "ok"
  /\ isErrors' = FlatMap([v \in 1..nVaults |-> isResp[v].errors.list],
                         nVaults)
  /\ schemaDict' = InsertSchemas(schemaDict,
                     FlatMap([v \in 1..nVaults |-> isResp[v].schemas],
                             nVaults))
  /\ isPc' = "mapped"
  /\ UNCHANGED <<acVars, regVars, nVaults, dbVars, raVars, isTask, isResp,
                 isReturned,
                 isReceived, isOrder>>

\* Some vault's chain is Err: combineWithAllErrors is Err, .map is skipped.
initSchema_CombineErr ==
  /\ isPc = "called"
  /\ initSchema_AllSettled
  /\ \E v \in Vaults : isTask[v].pos = "err"
  /\ isPc' = "combineErr"
  /\ UNCHANGED <<acVars, regVars, nVaults, dbVars, raVars, isTask, isResp,
                 isErrors,
                 schemaDict, isReturned, isReceived, isOrder>>

\* The caller awaits the returned ResultAsync: it sees the Result and, for
\* Ok, the schemaDict object as it is at that moment.
initSchema_CallerReceives ==
  /\ isReturned.kind # "none"
  /\ ~isReceived.received
  /\ isReceived' = [received |-> TRUE, kind |-> isReturned.kind,
                    dict |-> schemaDict, error |-> isReturned.error]
  /\ UNCHANGED <<acVars, regVars, nVaults, dbVars,
                 raVars, isPc, isTask, isResp, isErrors,
                 schemaDict, isReturned, isOrder>>

\* ------------------------------------------------- UIAutoCompletableCmds
\* The members of enum AUTO_COMPLETABLE_COMMAND_ID.
CmdIds ==
  {"NOTE_LOOKUP"}

\* Command instances, told apart by identity.
Cmds ==
  1..MaxCmds

\* What Map.get gives for a key that is not in the map.
UndefinedCmd ==
  0

NoGet ==
  [kind |-> "none", id |-> "NOTE_LOOKUP", cmd |-> UndefinedCmd, at |-> 0]

IdleReg ==
  /\ UI_AUTOCOMPLETE_COMMANDS = [id \in CmdIds |-> UndefinedCmd]
  /\ regLog = <<>>
  /\ lastGet = NoGet

\* Mutant of registerIfNotRegistered: every call sets the entry.
registerIfNotRegistered_Overwrite(id, cmd) ==
  /\ Len(regLog) < MaxRegs
  /\ UI_AUTOCOMPLETE_COMMANDS' = [UI_AUTOCOMPLETE_COMMANDS EXCEPT ![id] = cmd]
  /\ regLog' = Append(regLog, [id |-> id, cmd |-> cmd])
  /\ UNCHANGED <<acVars, nVaults, dbVars, raVars, isVars, lastGet>>

registerIfNotRegistered(id, cmd) ==
  /\ Len(regLog) < MaxRegs
  /\ UI_AUTOCOMPLETE_COMMANDS' =
       IF UI_AUTOCOMPLETE_COMMANDS[id] = UndefinedCmd
         THEN [UI_AUTOCOMPLETE_COMMANDS EXCEPT ![id] = cmd]
         ELSE UI_AUTOCOMPLETE_COMMANDS
  /\ regLog' = Append(regLog, [id |-> id, cmd |-> cmd])
  /\ UNCHANGED <<acVars, nVaults, dbVars, raVars, isVars, lastGet>>

\* getCmd either throws the invalid-state error or returns the entry.
getCmd(id) ==
  /\ LET cmd == UI_AUTOCOMPLETE_COMMANDS[id] IN
       lastGet' =
         IF cmd = UndefinedCmd
           THEN [kind |-> "threw", id |-> id, cmd |-> UndefinedCmd,
                 at |-> Len(regLog)]
           ELSE [kind |-> "returned", id |-> id, cmd |-> cmd,
                 at |-> Len(regLog)]
  /\ UNCHANGED <<acVars, nVaults, dbVars, raVars, isVars,
                 UI_AUTOCOMPLETE_COMMANDS,
                 regLog>>

\* ---------------------------------------------------------- AutoCompleter
\* Strings are sequences of characters: a letter, the hierarchy separator and
\* a special query character.
Chars ==
  {"a", ".", "*"}

Strings ==
  UNION {[1..k -> Chars] : k \in 0..MaxLen}

\* fnames[topPickIdx] and fnames[topPickIdx + 1] are the elements that are
\* read by index.
MaxFnames ==
  2

\* File names are made of letters and the hierarchy separator.
FnameChars ==
  {"a", "."}

Fnames ==
  UNION {[1..k -> FnameChars] : k \in 0..MaxLen}

FnameLists ==
  UNION {[1..k -> Fnames] : k \in 0..MaxFnames}

SpecialQueryChars ==
  {"*"}

\* FuseEngine.doesContainSpecialQueryChars.
doesContainSpecialQueryChars(str) ==
  \E i \in 1..Len(str) : str[i] \in SpecialQueryChars

MinOf(S) ==
  CHOOSE x \in S : \A y \in S : x <= y

\* String.prototype.indexOf(search, from): 0-based, -1 when absent.
indexOf(str, search, from) ==
  LET start == IF from > Len(str) THEN Len(str) ELSE from
      hits == {i \in start..(Len(str) - Len(search)) :
                 SubSeq(str, i + 1, i + Len(search)) = search}
  IN  IF hits = {} THEN -1 ELSE MinOf(hits)

\* String.prototype.startsWith.
startsWith(str, prefix) ==
  /\ Len(prefix) <= Len(str)
  /\ SubSeq(str, 1, Len(prefix)) = prefix

\* String.prototype.includes.
includes(str, search) ==
  indexOf(str, search, 0) # -1

\* String.prototype.substring(from, to) for 0 <= from <= to <= length.
substring(str, from, to) ==
  SubSeq(str, from + 1, to)

\* Array.prototype.includes.
arrayIncludes(arr, x) ==
  \E i \in 1..Len(arr) : arr[i] = x

\* A function's return value, with the count of the recursive calls that
\* computing it took.
Returned(out, calls) ==
  [out |-> out, calls |-> calls]

RECURSIVE matchPrefixTillNextDot(_, _, _)
matchPrefixTillNextDot(topPick, value, minIdx) ==
  LET startSearchIdx == IF Len(value) >= minIdx THEN Len(value) ELSE minIdx
      dotIdx == indexOf(topPick, <<".">>, startSearchIdx)
  IN  IF startSearchIdx >= Len(topPick) THEN Returned(topPick, 0)
      ELSE IF dotIdx = -1 THEN Returned(topPick, 0)
      ELSE IF dotIdx = Len(value) THEN
        LET r == matchPrefixTillNextDot(topPick, value, dotIdx + 1)
        IN  Returned(r.out, r.calls + 1)
      ELSE Returned(substring(topPick, 0, dotIdx), 0)

matchNoteUpToCurrValue(topPick, value) ==
  LET idx == indexOf(topPick, value, 0)
  IN  IF idx = -1 THEN topPick
      ELSE substring(topPick, 0, idx) \o value

\* Mutant of autoCompleteNoteLookup: a top pick that starts with the current
\* value is completed to the whole top pick.
autoCompleteNoteLookup_WholePick(value, active, names) ==
  IF Len(names) = 0 THEN Returned(value, 0)
  ELSE IF value # active /\ arrayIncludes(names, active)
    THEN Returned(active, 0)
  ELSE IF doesContainSpecialQueryChars(value) THEN Returned(names[1], 0)
  ELSE IF Len(value) > Len(names[1]) THEN Returned(value, 0)
  ELSE IF startsWith(names[1], value) THEN
    IF names[1] = value
      THEN IF 0 < Len(names) - 1 /\ startsWith(names[2], value)
             THEN Returned(names[2], 0)
             ELSE Returned(names[1], 0)
      ELSE Returned(names[1], 0)
  ELSE IF includes(names[1], value)
    THEN Returned(matchNoteUpToCurrValue(names[1], value), 0)
  ELSE Returned(names[1], 0)

\* topPickIdx is 0, and 1 after `topPickIdx += 1`; sequences are 1-based.
autoCompleteNoteLookup(value, active, names) ==
  IF Len(names) = 0 THEN Returned(value, 0)
  ELSE IF value # active /\ arrayIncludes(names, active)
    THEN Returned(active, 0)
  ELSE IF doesContainSpecialQueryChars(value) THEN Returned(names[1], 0)
  ELSE IF Len(value) > Len(names[1]) THEN Returned(value, 0)
  ELSE IF startsWith(names[1], value) THEN
    IF names[1] = value
      THEN IF 0 < Len(names) - 1 /\ startsWith(names[2], value)
             THEN matchPrefixTillNextDot(names[2], value, 0)
             ELSE Returned(names[1], 0)
      ELSE matchPrefixTillNextDot(names[1], value, 0)
  ELSE IF includes(names[1], value)
    THEN Returned(matchNoteUpToCurrValue(names[1], value), 0)
  ELSE Returned(names[1], 0)

IdleAC ==
  /\ currentValue = <<>>
  /\ activeItemValue = <<>>
  /\ fnames = <<>>
  /\ acPc = "idle"
  /\ acResult = <<>>
  /\ acCalls = 0

\* One call of AutoCompleter.autoCompleteNoteLookup.
AutoComplete ==
  /\ acPc = "call"
  /\ LET r == autoCompleteNoteLookup(currentValue, activeItemValue, fnames)
     IN  /\ acResult' = r.out
         /\ acCalls' = r.calls
  /\ acPc' = "returned"
  /\ UNCHANGED <<nVaults, dbVars, raVars, isVars, regVars, currentValue,
                 activeItemValue, fnames>>

\* ------------------------------------------------------------ specification
IdleDb ==
  /\ dbFilePath \in DbFilePaths
  /\ pc = "idle"
  /\ prom = "pending"
  /\ settleCalls = 0
  /\ stmt = [s \in AllStmts |-> "notIssued"]
  /\ tables = {}
  /\ fkOn = FALSE
  /\ emptyDbResult = "pending"
  /\ vault = [v \in 1..MaxVaults |-> NoVault]
  /\ result = "pending"

\* A call of createInitializedDB (createEmptyDB is its first part).
Init ==
  /\ InitDb
  /\ IdleRA
  /\ IdleIS
  /\ IdleReg
  /\ IdleAC

Next ==
  \/ \E err \in BOOLEAN : DatabaseCallback(err)
  \/ createEmptyDB_OpenFailed
  \/ createEmptyDB_Phase1
  \/ \E s \in AllStmts, ok \in BOOLEAN : RunStatement(s, ok)
  \/ createEmptyDB_Phase2
  \/ createEmptyDB_Phase1Failed
  \/ createEmptyDB_Return
  \/ createInitializedDB_EmptyFailed
  \/ createInitializedDB_Ingest
  \/ \E v \in 1..MaxVaults, o \in ReadDirOutcomes :
       createInitializedDB_ReadDir(v, o)
  \/ \E v \in 1..MaxVaults, out \in {"throw", "ok", "err"}, k \in 0..MaxFiles :
       createInitializedDB_Parse(v, out, k)
  \/ createInitializedDB_Return
  \/ createInitializedDB_Reject

Spec ==
  Init /\ [][Next]_vars

\* A call of readAllSchema.
InitReadAllSchema ==
  /\ nVaults \in 0..MaxVaults
  /\ IdleDb
  /\ IdleRA
  /\ IdleIS
  /\ IdleReg
  /\ IdleAC

NextReadAllSchema ==
  \/ readAllSchema_Call
  \/ \E v \in 1..MaxVaults, o \in SchemaReadDirOutcomes :
       readAllSchema_ReadDir(v, o)
  \/ \E v \in 1..MaxVaults, n \in 0..MaxFiles :
       \E out \in ParseOutcomes(v, n) : readAllSchema_Parse(v, out)
  \/ readAllSchema_Return

SpecReadAllSchema ==
  InitReadAllSchema /\ [][NextReadAllSchema]_vars

\* A call of initSchema.
InitInitSchema ==
  /\ nVaults \in 0..MaxVaults
  /\ IdleDb
  /\ IdleRA
  /\ isPc = "start"
  /\ isTask = [v \in 1..MaxVaults |-> NoTask]
  /\ isResp = [v \in 1..MaxVaults |-> NoParse]
  /\ isErrors = <<>>
  /\ schemaDict = NoDict
  /\ isReturned = NoReturn
  /\ isReceived = NotReceived
  /\ isOrder = <<>>
  /\ IdleReg
  /\ IdleAC

NextInitSchema ==
  \/ initSchema_Call
  \/ \E v \in 1..MaxVaults, o \in SchemaReadDirOutcomes :
       initSchema_ReadDir(v, o)
  \/ \E v \in 1..MaxVaults, n \in 0..MaxFiles :
       \E out \in ParseOutcomes(v, n) : initSchema_Parse(v, out)
  \/ initSchema_CombineMap
  \/ initSchema_CombineErr
  \/ initSchema_CallerReceives

SpecInitSchema ==
  InitInitSchema /\ [][NextInitSchema]_vars

\* Calls of the static members of UIAutoCompletableCmds.
InitRegistry ==
  /\ nVaults = 0
  /\ dbFilePath = ":memory:"
  /\ IdleDb
  /\ IdleRA
  /\ IdleIS
  /\ IdleReg
  /\ IdleAC

NextRegistry ==
  \/ \E id \in CmdIds, cmd \in Cmds : registerIfNotRegistered(id, cmd)
  \/ \E id \in CmdIds : getCmd(id)

SpecRegistry ==
  InitRegistry /\ [][NextRegistry]_vars

\* A call of autoCompleteNoteLookup. An activeItemValue that is neither the
\* current value nor one of fnames is the single letter or the empty string.
InitAutoComplete ==
  /\ nVaults = 0
  /\ dbFilePath = ":memory:"
  /\ IdleDb
  /\ IdleRA
  /\ IdleIS
  /\ IdleReg
  /\ currentValue \in Strings
  /\ fnames \in FnameLists
  /\ activeItemValue \in
       {currentValue, <<>>, <<"a">>} \cup {fnames[i] : i \in 1..Len(fnames)}
  /\ acPc = "call"
  /\ acResult = <<>>
  /\ acCalls = 0

NextAutoComplete ==
  AutoComplete

SpecAutoComplete ==
  InitAutoComplete /\ [][NextAutoComplete]_vars

\* ------------------------------------------------------------------ claims
\* Some vault's fileStore.readDir failed, by rejection or by an {error}
\* response.
SomeListingFailed ==
  \E v \in Vaults : vault[v].list \in {"reject", "respErr"}

\* C1: once createInitializedDB has settled, if the listing of any vault
\* failed (rejected promise or response carrying an error) the call returned
\* an error result, never Ok with the handle.
C1_ListingFailureIsError ==
  (pc = "done" /\ SomeListingFailed) => result = "err"

\* C2: once createInitializedDB has settled, if the note parser returned an
\* error for some vault the call returned an error result, not the handle.
C2_ParserErrorIsFatal ==
  (pc = "done" /\ \E v \in Vaults : vault[v].inner = "err") => result = "err"

\* C3: a vault's listing, parsing or row write has started only if
\* createEmptyDB returned Ok with all seven tables in the store; if
\* createEmptyDB returned Err no vault task ever starts and the call's
\* result is that Err.
C3_SchemaBeforeIngestion ==
  /\ (\E v \in Vaults : vault[v].task # "notStarted" \/ vault[v].rows > 0)
       => (emptyDbResult = "ok" /\ AllTables \subseteq tables)
  /\ emptyDbResult = "err"
       => /\ \A v \in Vaults : vault[v].task = "notStarted"
          /\ result \in {"pending", "err"}
          /\ (pc = "done" => result = "err")

\* C3 witness: a vault has been listed and parsed, rows written.
C3_Witness ==
  \E v \in Vaults : vault[v].task = "settled" /\ vault[v].rows > 0

\* C4: a phase-2 statement has been issued only if all three phase-1 table
\* creations completed successfully; after a phase-1 failure no phase-2
\* statement is ever issued.
C4_Phase1BeforePhase2 ==
  /\ (\E s \in Phase2Stmts : stmt[s] # "notIssued")
       => \A t \in Phase1Tables : stmt[t] = "ok"
  /\ (\E t \in Phase1Tables : stmt[t] = "err")
       => \A s \in Phase2Stmts : stmt[s] = "notIssued"

\* C4 witness: phase 2 is in progress.
C4_Witness ==
  \E s \in Phase2Tables : stmt[s] = "running"

\* C5: the PRAGMA that enables foreign keys has been issued only if every
\* phase-2 table creation has succeeded, and enforcement is never on while
\* a table is missing.
C5_PragmaAfterPhase2 ==
  /\ stmt[PragmaFK] # "notIssued" => \A t \in Phase2Tables : stmt[t] = "ok"
  /\ fkOn => AllTables \subseteq tables

\* C6: if any of the seven table creations failed, createEmptyDB never
\* returns Ok and, once it has returned, it returned Err.
C6_AllOrNothing ==
  (\E t \in AllTables : stmt[t] = "err")
    => /\ emptyDbResult # "ok"
       /\ (pc \in {"emptyDone", "ingest", "done"} => emptyDbResult = "err")

\* C6 witness: createEmptyDB returned Err on a partial schema after a
\* phase-2 creation failed.
C6_Witness ==
  /\ emptyDbResult = "err"
  /\ \E t \in Phase2Tables : stmt[t] = "err"
  /\ Phase1Tables \subseteq tables

\* C7: whenever createEmptyDB has returned Ok, on a fresh target, the table
\* set is exactly the seven tables and foreign-key enforcement is on, for
\* the in-memory sentinel and for a file path alike.
C7_OkMeansFullSchema ==
  \A p \in DbFilePaths :
    (dbFilePath = p /\ emptyDbResult = "ok") => (tables = AllTables /\ fkOn)

\* C7 witness: createEmptyDB(":memory:") returned Ok.
C7_Witness ==
  dbFilePath = ":memory:" /\ emptyDbResult = "ok" /\ pc = "emptyDone"

\* Every vault's listing resolved with zero note files.
AllVaultsEmpty ==
  \A v \in Vaults : vault[v].list = "data" /\ vault[v].nfiles = 0

\* C8: when the ingestion step has run and settled over a vault set (the
\* empty one included) whose listings all succeeded with zero files,
\* createInitializedDB returned Ok and no row was written; and a settled
\* zero-file vault has written no row and has an Ok result whatever its
\* siblings did.
C8_ZeroFileVaults ==
  /\ (pc = "done" /\ emptyDbResult = "ok" /\ AllVaultsEmpty)
       => (result = "ok" /\ \A v \in Vaults : vault[v].rows = 0)
  /\ \A v \in Vaults :
       (vault[v].task = "settled" /\ vault[v].list = "data"
          /\ vault[v].nfiles = 0)
         => (vault[v].rows = 0 /\ vault[v].res = "ok")

\* C8 witness: two zero-file vaults, the call returned Ok.
C8_Witness ==
  pc = "done" /\ nVaults = 2 /\ AllVaultsEmpty /\ result = "ok"

\* Vault v of a readAllSchema call listed no schema file or failed to list.
RaNoSchema(v) ==
  /\ raTask[v].pos = "done"
  /\ (raTask[v].list = "error" \/ raTask[v].nfiles = 0)

\* The elements of a sequence.
Range(q) ==
  {q[i] : i \in 1..Len(q)}

\* C9: in readAllSchema a vault with zero schema files or a listing error
\* yields a MINOR NO_SCHEMA_FOUND sub-error naming that vault; the call
\* returns only after every sibling was processed, and the returned value
\* holds that sub-error (inside its error) together with every module the
\* parser returned for the other vaults.
C9_NoSchemaFoundIsLocal ==
  /\ \A v \in Vaults :
       RaNoSchema(v)
         => /\ raResp[v].error.kind = "composite"
            /\ Len(raResp[v].error.errors) = 1
            /\ raResp[v].error.errors[1].status = "NO_SCHEMA_FOUND"
            /\ raResp[v].error.errors[1].severity = "MINOR"
            /\ raResp[v].error.errors[1].vault = v
  /\ raResult.returned
       => /\ \A v \in Vaults : raTask[v].pos = "done"
          /\ \A a \in Vaults :
               RaNoSchema(a)
                 => \E e \in LeafErrors(raResult.error) :
                      /\ e.status = "NO_SCHEMA_FOUND"
                      /\ e.severity = "MINOR"
                      /\ e.vault = a
          /\ \A b \in Vaults :
               Range(raParsed[b].schemas) \subseteq Range(raResult.data)

\* C9 witness: vault A has no schema file, vault B one valid file, and the
\* call has returned.
C9_Witness ==
  /\ raResult.returned
  /\ \E a, b \in Vaults :
       /\ RaNoSchema(a) /\ raTask[a].list = "data"
       /\ raTask[b].nfiles = 1
       /\ Len(raParsed[b].schemas) = 1
       /\ raParsed[b].errors.isNull

\* The parse errors the schema parser reported to an initSchema call.
InitSchemaReportedErrors ==
  FlatMap([v \in 1..nVaults |-> isResp[v].errors.list], nVaults)

\* C10: once every vault of an initSchema call has been processed, if the
\* schema parser reported at least one error, the result initSchema returned
\* is an error that carries every reported parse error.
C10_ParseErrorsReturned ==
  (isPc \in {"mapped", "combineErr"} /\ Len(InitSchemaReportedErrors) > 0)
    => /\ isReturned.kind = "err"
       /\ Range(InitSchemaReportedErrors) \subseteq LeafErrors(isReturned.error)

\* Every schema module the parser returned to an initSchema call has an
\* entry under its root id in dictionary d.
InitSchemaAllInserted(d) ==
  \A v \in Vaults :
    \A m \in Range(isResp[v].schemas) : d[m.rootId] # NoModule

\* C11: the step in which the caller of initSchema receives an Ok result
\* happens only when every vault's listing and parsing has finished, and the
\* dictionary then holds an entry for every parsed schema module.
C11_OkDictIsComplete ==
  [][(~isReceived.received /\ isReceived'.received
        /\ isReceived'.kind = "ok")
       => (initSchema_AllSettled /\ InitSchemaAllInserted(schemaDict))]_vars

\* The vaults of an initSchema call whose parse returned a module with
\* root id `id`.
InitSchemaDefiners(id) ==
  {v \in Vaults : \E m \in Range(isResp[v].schemas) : m.rootId = id}

\* The greatest element of a non-empty set of numbers.
MaxOf(S) ==
  CHOOSE x \in S : \A y \in S : y <= x

\* C12: whenever initSchema's merge has run, the dictionary entry of every
\* root id is a module of the last vault, in input order, that defines the
\* id, whatever the order in which the vaults settled; the merge adds no
\* error of its own.
C12_LastVaultWins ==
  isPc = "mapped"
    => /\ \A id \in RootIds :
            IF InitSchemaDefiners(id) = {}
            THEN schemaDict[id] = NoModule
            ELSE /\ schemaDict[id].vault = MaxOf(InitSchemaDefiners(id))
                 /\ schemaDict[id] \in
                      Range(isResp[MaxOf(InitSchemaDefiners(id))].schemas)
       /\ isErrors = InitSchemaReportedErrors

\* C12 witness: vaults 1 and 2 both define root id r1, vault 2 settled
\* first, and the merged entry is vault 2's module.
C12_Witness ==
  /\ isPc = "mapped"
  /\ isOrder = <<2, 1>>
  /\ InitSchemaDefiners("r1") = {1, 2}
  /\ schemaDict["r1"].vault = 2

\* C13: once an initSchema call has finished, if some vault's listing
\* failed, the modules parsed from the other vaults are nevertheless in the
\* dictionary.
C13_ListingFailureIsLocal ==
  (isPc \in {"mapped", "combineErr"} /\ \E v \in Vaults : isTask[v].pos = "err")
    => InitSchemaAllInserted(schemaDict)

\* The sub-error lists of error values es[1..n], concatenated in order.
RECURSIVE ConcatSubErrors(_, _)
ConcatSubErrors(es, n) ==
  IF n = 0 THEN <<>> ELSE ConcatSubErrors(es, n - 1) \o es[n].errors

\* C14: the sub-error list of the composite error readAllSchema returns is
\* the concatenation, in vault order, of the sub-errors of the per-vault
\* composite errors (flat, not a list of composites).
C14_AggregationIsFlat ==
  (raResult.returned /\ raResult.error.kind = "composite")
    => raResult.error.errors =
         ConcatSubErrors([v \in 1..nVaults |-> raResp[v].error], nVaults)

\* The non-composite errors inside an error value, in the order a
\* depth-first enumeration of its sub-error lists meets them.
RECURSIVE LeafSeq(_)
LeafSeq(e) ==
  IF e.kind = "composite"
  THEN FlatMap([i \in 1..Len(e.errors) |-> LeafSeq(e.errors[i])],
               Len(e.errors))
  ELSE IF e.kind = "undefined" THEN <<>> ELSE <<e>>

\* The errors of vault v in a readAllSchema call: NO_SCHEMA_FOUND for a
\* vault without schema files, else the errors its parse reported.
RaVaultErrors(v) ==
  IF RaNoSchema(v) THEN <<NoSchemaFound(v)>> ELSE raParsed[v].errors.list

\* C15: the error readAllSchema returns enumerates the errors of every
\* failed vault, none left out, in the order of the input vault list
\* whatever the order in which the vaults' callbacks ended.
C15_EveryFailedVaultInOrder ==
  raResult.returned
    => LeafSeq(raResult.error) =
         FlatMap([v \in 1..nVaults |-> RaVaultErrors(v)], nVaults)

\* C15 witness: both vaults failed, vault 2 ended first, the call returned.
C15_Witness ==
  /\ raResult.returned
  /\ raOrder = <<2, 1>>
  /\ RaVaultErrors(1) # <<>>
  /\ RaVaultErrors(2) # <<>>

\* C16: the data readAllSchema returns is the concatenation, in vault
\* order, of the modules the parser returned for every vault, whether or
\* not any vault produced an error.
C16_BestEffortData ==
  raResult.returned
    => raResult.data =
         FlatMap([v \in 1..nVaults |-> raParsed[v].schemas], nVaults)

\* C16 witness: the call returned an error together with a parsed module,
\* the failing vault being first in the list.
C16_Witness ==
  /\ raResult.returned
  /\ raResult.error.kind = "composite"
  /\ RaVaultErrors(1) # <<>>
  /\ raResult.data # <<>>

\* The composite errors inside an error value, itself included.
RECURSIVE Composites(_)
Composites(e) ==
  IF e.kind = "composite"
  THEN {e} \cup UNION {Composites(e.errors[i]) : i \in 1..Len(e.errors)}
  ELSE {}

\* Vault v of a readAllSchema call failed: no schema file, a listing error
\* or at least one parse error.
RaVaultFailed(v) ==
  RaNoSchema(v) \/ Len(raParsed[v].errors.list) > 0

\* C17: every composite error built by readAllSchema has a non-empty
\* sub-error list, and readAllSchema returns an error only if some vault
\* failed.
C17_CompositeNonEmpty ==
  /\ \A v \in Vaults :
       \A c \in Composites(raResp[v].error) : c.errors # <<>>
  /\ \A c \in Composites(raResult.error) : c.errors # <<>>
  /\ (raResult.returned /\ raResult.error.kind # "undefined")
       => \E v \in Vaults : RaVaultFailed(v)

\* C18: when the database cannot be opened (the callback called reject and
\* then resolve), the promise stays rejected, no table creation or PRAGMA
\* is ever issued, and createEmptyDB returns an error result.
C18_OpenFailure ==
  settleCalls = 2
    => /\ prom = "rejected"
       /\ \A s \in AllStmts : stmt[s] = "notIssued"
       /\ emptyDbResult \in {"pending", "err"}
       /\ (pc \notin {"open", "opened"} => emptyDbResult = "err")

\* C18 witness: the open failed and createEmptyDB has returned Err.
C18_Witness ==
  settleCalls = 2 /\ pc = "emptyDone" /\ emptyDbResult = "err"

\* C19: createInitializedDB has returned Ok only if createEmptyDB returned
\* Ok and every vault's listing and parse task has completed.
C19_OkAfterAllVaults ==
  result = "ok"
    => /\ emptyDbResult = "ok"
       /\ \A v \in Vaults : vault[v].task = "settled"

\* C19 witness: Ok returned after two vaults were listed and parsed.
C19_Witness ==
  /\ result = "ok"
  /\ nVaults = 2
  /\ \A v \in Vaults : vault[v].task = "settled" /\ vault[v].rows > 0

\* The command of the first call in `log` that registered `id`, UndefinedCmd
\* when no call did.
RECURSIVE FirstRegistered(_, _)
FirstRegistered(log, id) ==
  IF log = <<>> THEN UndefinedCmd
  ELSE IF Head(log).id = id THEN Head(log).cmd
  ELSE FirstRegistered(Tail(log), id)

\* The registerIfNotRegistered calls made before the latest getCmd call.
CallsBeforeGet ==
  SubSeq(regLog, 1, lastGet.at)

\* C20: after any sequence of registerIfNotRegistered calls, getCmd(id)
\* returns the command of the first registration of that id (later
\* registrations never replace it); for an id that was never registered it
\* raises the invalid-state error, and a getCmd call leaves the registry as
\* it was.
C20_FirstRegistrationWins ==
  /\ [](/\ \A id \in CmdIds :
             UI_AUTOCOMPLETE_COMMANDS[id] = FirstRegistered(regLog, id)
        /\ lastGet.kind = "returned" =>
             /\ lastGet.cmd # UndefinedCmd
             /\ lastGet.cmd = FirstRegistered(CallsBeforeGet, lastGet.id)
        /\ lastGet.kind = "threw" =>
             FirstRegistered(CallsBeforeGet, lastGet.id) = UndefinedCmd)
  /\ [][lastGet' # lastGet =>
          UI_AUTOCOMPLETE_COMMANDS' = UI_AUTOCOMPLETE_COMMANDS]_vars

\* getCmd returned the first command after a second, different command was
\* registered for the same id.
C20_Witness ==
  /\ lastGet.kind = "returned"
  /\ lastGet.at >= 2
  /\ regLog[1].id = lastGet.id
  /\ regLog[2].id = lastGet.id
  /\ regLog[2].cmd # regLog[1].cmd
  /\ lastGet.cmd = regLog[1].cmd

\* Number of "." characters of a string.
DotCount(str) ==
  Cardinality({i \in 1..Len(str) : str[i] = "."})

\* No other item is focused, the current value has no special query
\* character, and the top pick starts with it and is strictly longer.
CompletesTopPick ==
  /\ activeItemValue = currentValue
  /\ ~doesContainSpecialQueryChars(currentValue)
  /\ Len(fnames) > 0
  /\ startsWith(fnames[1], currentValue)
  /\ Len(fnames[1]) > Len(currentValue)

\* C21: autoCompleteNoteLookup completes one hierarchy level at a time. When
\* no other item is focused, currentValue has no special query character and
\* fnames[0] starts with currentValue and is strictly longer, the result is a
\* prefix of fnames[0] that strictly extends currentValue, is all of
\* fnames[0] or ends immediately before a "." of fnames[0], and has at most
\* one more "." than currentValue; matchPrefixTillNextDot calls itself at
\* most once.
C21_OneLevelAtATime ==
  acPc = "returned" =>
    /\ acCalls <= 1
    /\ CompletesTopPick =>
         /\ startsWith(fnames[1], acResult)
         /\ startsWith(acResult, currentValue)
         /\ Len(acResult) > Len(currentValue)
         /\ \/ acResult = fnames[1]
            \/ fnames[1][Len(acResult) + 1] = "."
         /\ DotCount(acResult) <= DotCount(currentValue) + 1

\* A completion across the dot that follows the current value, up to the
\* next dot of the top pick.
C21_Witness ==
  /\ acPc = "returned"
  /\ CompletesTopPick
  /\ currentValue # <<>>
  /\ acCalls = 1
  /\ acResult # fnames[1]
  /\ DotCount(acResult) = DotCount(currentValue) + 1

====
